---- MODULE Spec2Model ----
(***************************************************************************)
(* MemOS basic REST API: the process-wide MOS singleton of                 *)
(* memos/api/start_config.py and the request handlers of                   *)
(* memos/api/routers/start_router.py.                                      *)
(*                                                                         *)
(* The specifications share the state:                                     *)
(*   Spec        - every call (get_mos_instance, set_mos_instance,         *)
(*                 reset_mos_instance, a request handler) runs to its end  *)
(*                 before the next one starts.  The handlers are           *)
(*                 `async def` without an await, so on one event loop      *)
(*                 this is how they execute.                               *)
(*   SpecThreads - get/set/reset called from several threads, one action   *)
(*                 per statement, as nothing in start_config.py locks.     *)
(*   SpecAdd, SpecConfigure, SpecUsers, SpecScope, SpecGateway             *)
(*               - requests to the handlers, one after the other.          *)
(*   SpecConfig  - get_default_config and what callers do with the dict.   *)
(***************************************************************************)
EXTENDS Integers, Sequences, FiniteSets, TLC

VARIABLES
    MOS_INSTANCE,   \* the module global _MOS_INSTANCE: NoInst or an object id
    heap,           \* object id -> fields of the MOS object
    users,          \* the user registry behind UserManager
    nextId,         \* id the next constructed MOS object gets
    prev,           \* Spec: summary of the call before the last one
    last,           \* Spec: the call that ran last and what it did
    th,             \* SpecThreads: per thread, the call it is in
    swapped,        \* SpecThreads: set_mos_instance or reset_mos_instance was called
    started,        \* SpecThreads: number of calls begun
    replaced,       \* SpecThreads: the object the last finished set_mos_instance
                    \* stored, NoInst once another set or reset has begun
    engine,         \* what the engine holds: registered cubes and stored memories
    dicts           \* SpecConfig: the dict objects of DEFAULT_CONFIG and its copies

vars == <<MOS_INSTANCE, heap, users, nextId, prev, last, th, swapped, started,
          replaced, engine, dicts>>

(***************************************************************************)
(* Bounds                                                                  *)
(***************************************************************************)
MaxInst == 3        \* MOS objects constructed in one behaviour
NumThreads == 2     \* threads of SpecThreads
MaxCalls == 3       \* calls begun in one behaviour of SpecThreads
MaxConfigs == 2     \* dicts handed out by get_default_config in SpecConfig

(***************************************************************************)
(* Python values                                                           *)
(***************************************************************************)
\* Optional[T]: None is the empty set, a value v is {v}.
None == {}
Some(v) == {v}
Val(o) == CHOOSE v \in o : TRUE

\* _MOS_INSTANCE = None
NoInst == 0

\* bool(x) of an optional str / an optional list
TruthyStr(o) == o # None /\ Val(o) # ""
TruthyList(o) == o # None /\ Len(Val(o)) > 0

(***************************************************************************)
(* start_config.py                                                         *)
(***************************************************************************)
DEFAULT_TOP_K == 5

DEFAULT_CONFIG ==
    [user_id |-> "default_user",
     session_id |-> "default_session",
     enable_textual_memory |-> TRUE,
     enable_activation_memory |-> FALSE,
     top_k |-> DEFAULT_TOP_K]

\* MOSConfig(**d): a new config object holding the values of d
MOSConfig(d) ==
    [user_id |-> d.user_id,
     session_id |-> d.session_id,
     top_k |-> d.top_k,
     enable_textual_memory |-> d.enable_textual_memory,
     enable_activation_memory |-> d.enable_activation_memory]

\* MOS(config): the fields of a constructed MOS object
MOS(config) ==
    [config |-> config, user_id |-> config.user_id, session_id |-> config.session_id]

\* UserManager.validate_user / UserManager.create_user on the registry
UserRec(u, name, role) == [user_id |-> u, user_name |-> name, role |-> role]
validate_user(reg, u) == \E e \in reg : e.user_id = u
create_user(reg, name, role, u) == reg \cup {UserRec(u, name, role)}

\* MOS.__init__ needs its user in the registry; ok is everything else
\* that lets the constructor finish (reachable model endpoint, ...)
CtorSucceeds(reg, config, ok) == ok /\ validate_user(reg, config.user_id)

\* create_user_if_not_exists(user_id, user_manager): the registry it leaves
create_user_if_not_exists(user_id, reg) ==
    IF ~validate_user(reg, user_id)
    THEN create_user(reg, user_id, "USER", user_id)
    ELSE reg

\* the objects still referenced from roots
Collect(h, roots) == [i \in (DOMAIN h) \cap roots |-> h[i]]

\* Result of a call, with the state it leaves:
\*   status "ok" (returned ret) or "raised"; boot: the default-user bootstrap
\*   was entered; ctor: number of MOS(...) invocations
Outcome(status, ret, mi, h, reg, nid, boot, ctor) ==
    [status |-> status, ret |-> ret, mi |-> mi, heap |-> h, reg |-> reg,
     nid |-> nid, boot |-> boot, ctor |-> ctor]

get_mos_instance_always_new(mi, h, reg, nid, regOk, ctorOk) ==
    LET temp_config == MOSConfig(DEFAULT_CONFIG)
        reg1 == create_user_if_not_exists(temp_config.user_id, reg)
    IN  IF ~regOk THEN Outcome("raised", NoInst, mi, h, reg, nid, TRUE, 0)
        ELSE IF ~CtorSucceeds(reg1, temp_config, ctorOk)
        THEN Outcome("raised", NoInst, mi, h, reg1, nid, TRUE, 1)
        ELSE Outcome("ok", nid, nid, (nid :> MOS(temp_config)) @@ h, reg1, nid + 1, TRUE, 1)

get_mos_instance_poisoned(mi, h, reg, nid, regOk, ctorOk) ==
    IF mi = NoInst
    THEN LET temp_config == MOSConfig(DEFAULT_CONFIG)
             reg1 == create_user_if_not_exists(temp_config.user_id, reg)
         IN  IF ~regOk THEN Outcome("raised", NoInst, mi, h, reg, nid, TRUE, 0)
             ELSE IF ~CtorSucceeds(reg1, temp_config, ctorOk)
             THEN Outcome("raised", NoInst, nid, (nid :> MOS(temp_config)) @@ h,
                          reg1, nid + 1, TRUE, 1)
             ELSE Outcome("ok", nid, nid, (nid :> MOS(temp_config)) @@ h,
                          reg1, nid + 1, TRUE, 1)
    ELSE Outcome("ok", mi, mi, h, reg, nid, FALSE, 0)

\* get_mos_instance(): regOk = the registry calls do not raise,
\* ctorOk = MOS(config=temp_config) does not raise
get_mos_instance(mi, h, reg, nid, regOk, ctorOk) ==
    IF mi = NoInst
    THEN LET temp_config == MOSConfig(DEFAULT_CONFIG)
             reg1 == create_user_if_not_exists(temp_config.user_id, reg)
         IN  IF ~regOk THEN Outcome("raised", NoInst, mi, h, reg, nid, TRUE, 0)
             ELSE IF ~CtorSucceeds(reg1, temp_config, ctorOk)
             THEN Outcome("raised", NoInst, mi, h, reg1, nid, TRUE, 1)
             ELSE Outcome("ok", nid, nid, (nid :> MOS(temp_config)) @@ h,
                          reg1, nid + 1, TRUE, 1)
    ELSE Outcome("ok", mi, mi, h, reg, nid, FALSE, 0)

set_mos_instance_no_swap(config, mi, h, reg, nid, regOk, ctorOk) ==
    LET reg1 == create_user_if_not_exists(config.user_id, reg)
    IN  IF ~regOk THEN Outcome("raised", NoInst, mi, h, reg, nid, TRUE, 0)
        ELSE IF ~CtorSucceeds(reg1, config, ctorOk)
        THEN Outcome("raised", NoInst, mi, h, reg1, nid, TRUE, 1)
        ELSE Outcome("ok", nid, mi, (nid :> MOS(config)) @@ h, reg1, nid + 1, TRUE, 1)

set_mos_instance_clears_first(config, mi, h, reg, nid, regOk, ctorOk) ==
    LET reg1 == create_user_if_not_exists(config.user_id, reg)
    IN  IF ~regOk THEN Outcome("raised", NoInst, NoInst, h, reg, nid, TRUE, 0)
        ELSE IF ~CtorSucceeds(reg1, config, ctorOk)
        THEN Outcome("raised", NoInst, NoInst, h, reg1, nid, TRUE, 1)
        ELSE Outcome("ok", nid, nid, (nid :> MOS(config)) @@ h, reg1, nid + 1, TRUE, 1)

\* set_mos_instance(config)
set_mos_instance(config, mi, h, reg, nid, regOk, ctorOk) ==
    LET reg1 == create_user_if_not_exists(config.user_id, reg)
    IN  IF ~regOk THEN Outcome("raised", NoInst, mi, h, reg, nid, TRUE, 0)
        ELSE IF ~CtorSucceeds(reg1, config, ctorOk)
        THEN Outcome("raised", NoInst, mi, h, reg1, nid, TRUE, 1)
        ELSE Outcome("ok", nid, nid, (nid :> MOS(config)) @@ h, reg1, nid + 1, TRUE, 1)

reset_mos_instance_keep(mi) == mi

\* reset_mos_instance(): the new value of _MOS_INSTANCE
reset_mos_instance(mi) == NoInst

(***************************************************************************)
(* start_models.py                                                         *)
(***************************************************************************)
\* Message(role, content) and its model_dump()
Message(role, content) == [model |-> "Message", role |-> role, content |-> content]
model_dump(m) == [role |-> m.role, content |-> m.content]

\* MemoryCreate: every field is optional and defaults to None
MemoryCreate(messages, memory_content, doc_path, mem_cube_id, user_id) ==
    [messages |-> messages, memory_content |-> memory_content, doc_path |-> doc_path,
     mem_cube_id |-> mem_cube_id, user_id |-> user_id]

\* ConfigRequest: every field is optional and defaults to None
ConfigRequest(user_id, session_id, top_k, etm, eam) ==
    [user_id |-> user_id, session_id |-> session_id, top_k |-> top_k,
     enable_textual_memory |-> etm, enable_activation_memory |-> eam]

(***************************************************************************)
(* start_router.py                                                         *)
(***************************************************************************)
\* mos_instance.add(...): a keyword that is not passed is None at the engine
AddCall(inst, messages, memory_content, doc_path, mem_cube_id, user_id) ==
    [fn |-> "add", inst |-> inst, messages |-> messages,
     memory_content |-> memory_content, doc_path |-> doc_path,
     mem_cube_id |-> mem_cube_id, user_id |-> user_id]

\* What a handler did: the response, the engine calls it made, whether it
\* called get_mos_instance, and the state it leaves (an Outcome)
\* data: the envelope's data; logged: the `except Exception` branch ran
\* (logger.error); eres: how the engine call ended
Handled(code, message, calls, getCalled, g) ==
    [code |-> code, message |-> message, calls |-> calls, getCalled |-> getCalled, g |-> g,
     data |-> None, logged |-> (code = 500),
     eres |-> [called |-> calls # <<>>, raised |-> calls # <<>> /\ g.status = "raised",
               value |-> None]]

add_memory_rejects_never(req) == FALSE

\* add_memory: `not any([messages, memory_content, doc_path])`
add_memory_rejects(req) ==
    ~(TruthyList(req.messages) \/ TruthyStr(req.memory_content) \/ TruthyStr(req.doc_path))

add_memory_dispatch_doc_first(req, inst) ==
    IF TruthyStr(req.doc_path)
    THEN <<AddCall(inst, None, None, req.doc_path, req.mem_cube_id, req.user_id)>>
    ELSE IF TruthyStr(req.memory_content)
    THEN <<AddCall(inst, None, req.memory_content, None, req.mem_cube_id, req.user_id)>>
    ELSE IF TruthyList(req.messages)
    THEN <<AddCall(inst, Some([i \in DOMAIN Val(req.messages) |-> model_dump(Val(req.messages)[i])]),
                   None, None, req.mem_cube_id, req.user_id)>>
    ELSE <<>>

\* add_memory: the if / elif / elif chain choosing the engine call
add_memory_dispatch(req, inst) ==
    IF TruthyList(req.messages)
    THEN <<AddCall(inst, Some([i \in DOMAIN Val(req.messages) |-> model_dump(Val(req.messages)[i])]),
                   None, None, req.mem_cube_id, req.user_id)>>
    ELSE IF TruthyStr(req.memory_content)
    THEN <<AddCall(inst, None, req.memory_content, None, req.mem_cube_id, req.user_id)>>
    ELSE IF TruthyStr(req.doc_path)
    THEN <<AddCall(inst, None, None, req.doc_path, req.mem_cube_id, req.user_id)>>
    ELSE <<>>

add_memory_retry(req, mi, h, reg, nid, regOk, ctorOk, addOk) ==
    IF add_memory_rejects(req)
    THEN Handled(400, "Either messages, memory_content, or doc_path must be provided",
                 <<>>, FALSE, Outcome("raised", NoInst, mi, h, reg, nid, FALSE, 0))
    ELSE LET g == get_mos_instance(mi, h, reg, nid, regOk, ctorOk)
             calls == add_memory_dispatch(req, g.ret)
         IN  IF g.status = "raised"
             THEN Handled(500, "str(err)", <<>>, TRUE, g)
             ELSE IF calls # <<>> /\ ~addOk
             THEN Handled(500, "str(err)", calls \o calls, TRUE, [g EXCEPT !.status = "raised"])
             ELSE Handled(200, "Memories added successfully", calls, TRUE, g)

\* add_memory(memory_create): addOk = mos_instance.add does not raise
add_memory(req, mi, h, reg, nid, regOk, ctorOk, addOk) ==
    IF add_memory_rejects(req)
    THEN \* HTTPException(400), passed on by `except HTTPException: raise`
         Handled(400, "Either messages, memory_content, or doc_path must be provided",
                 <<>>, FALSE, Outcome("raised", NoInst, mi, h, reg, nid, FALSE, 0))
    ELSE LET g == get_mos_instance(mi, h, reg, nid, regOk, ctorOk)
             calls == add_memory_dispatch(req, g.ret)
         IN  IF g.status = "raised"
             THEN Handled(500, "str(err)", <<>>, TRUE, g)
             ELSE IF calls # <<>> /\ ~addOk
             THEN Handled(500, "str(err)", calls, TRUE, [g EXCEPT !.status = "raised"])
             ELSE Handled(200, "Memories added successfully", calls, TRUE, g)

set_config_apply_truthy(mos, req) ==
    [user_id |-> IF TruthyStr(req.user_id) THEN Val(req.user_id) ELSE mos.user_id,
     session_id |-> IF TruthyStr(req.session_id) THEN Val(req.session_id) ELSE mos.session_id,
     config |->
        [mos.config EXCEPT
           !.top_k = IF req.top_k # None /\ Val(req.top_k) # 0 THEN Val(req.top_k) ELSE @,
           !.enable_textual_memory =
               IF req.enable_textual_memory # None /\ Val(req.enable_textual_memory)
               THEN TRUE ELSE @,
           !.enable_activation_memory =
               IF req.enable_activation_memory # None /\ Val(req.enable_activation_memory)
               THEN TRUE ELSE @]]

\* set_config: the five `if config_request.<field> is not None` assignments
set_config_apply(mos, req) ==
    [user_id |-> IF req.user_id # None THEN Val(req.user_id) ELSE mos.user_id,
     session_id |-> IF req.session_id # None THEN Val(req.session_id) ELSE mos.session_id,
     config |->
        [mos.config EXCEPT
           !.top_k = IF req.top_k # None THEN Val(req.top_k) ELSE @,
           !.enable_textual_memory =
               IF req.enable_textual_memory # None
               THEN Val(req.enable_textual_memory) ELSE @,
           !.enable_activation_memory =
               IF req.enable_activation_memory # None
               THEN Val(req.enable_activation_memory) ELSE @]]

\* set_config(config_request)
set_config(req, mi, h, reg, nid, regOk, ctorOk) ==
    LET g == get_mos_instance(mi, h, reg, nid, regOk, ctorOk)
    IN  IF g.status = "raised"
        THEN Handled(500, "str(err)", <<>>, TRUE, g)
        ELSE Handled(200, "Configuration updated successfully", <<>>, TRUE,
                     [g EXCEPT !.heap = [g.heap EXCEPT ![g.ret] = set_config_apply(@, req)]])

(***************************************************************************)
(* Router: handlers that pass one call to the engine                       *)
(***************************************************************************)
ChatRequest(query, user_id) == [query |-> query, user_id |-> user_id]
CubeShare(target_user_id, user_id) == [target_user_id |-> target_user_id, user_id |-> user_id]

\* mos_instance.<method>(**args)
EngineCall(inst, method, args) == [inst |-> inst, method |-> method, args |-> args]

\* what the engine method does: raise, or return a value
Raises == [raised |-> TRUE, value |-> None]
Returns(v) == [raised |-> FALSE, value |-> v]

Failed_resets(calls, g) ==
    Handled(500, "str(err)", calls, TRUE, [g EXCEPT !.status = "raised", !.mi = NoInst])

\* `except Exception as err`: logger.error, HTTPException(500, str(err))
Failed(calls, g) == Handled(500, "str(err)", calls, TRUE, [g EXCEPT !.status = "raised"])

\* the response r of a handler whose engine call did res
Engine(r, res) == [r EXCEPT !.eres = [called |-> TRUE, raised |-> res.raised,
                                      value |-> res.value]]

chat_none_is_empty(req, mi, h, reg, nid, regOk, ctorOk, res) ==
    LET g == get_mos_instance(mi, h, reg, nid, regOk, ctorOk)
        calls == <<EngineCall(g.ret, "chat", [query |-> req.query, user_id |-> req.user_id])>>
    IN  IF g.status = "raised" THEN Failed(<<>>, g)
        ELSE IF res.raised THEN Engine(Failed(calls, g), res)
        ELSE Engine([Handled(200, "Chat response generated", calls, TRUE, g)
                        EXCEPT !.data = IF res.value = None THEN Some("") ELSE res.value],
                    res)

\* chat(chat_req): res = what mos_instance.chat does
chat(req, mi, h, reg, nid, regOk, ctorOk, res) ==
    LET g == get_mos_instance(mi, h, reg, nid, regOk, ctorOk)
        calls == <<EngineCall(g.ret, "chat", [query |-> req.query, user_id |-> req.user_id])>>
    IN  IF g.status = "raised" THEN Failed(<<>>, g)
        ELSE IF res.raised THEN Engine(Failed(calls, g), res)
        ELSE IF res.value = None
        THEN \* HTTPException(500), passed on by `except HTTPException: raise`
             Engine([Handled(500, "No response generated", calls, TRUE, g)
                        EXCEPT !.g.status = "raised", !.logged = FALSE], res)
        ELSE Engine([Handled(200, "Chat response generated", calls, TRUE, g)
                        EXCEPT !.data = res.value], res)

share_cube_ignores_result(cube_id, req, mi, h, reg, nid, regOk, ctorOk, res) ==
    LET g == get_mos_instance(mi, h, reg, nid, regOk, ctorOk)
        calls == <<EngineCall(g.ret, "share_cube_with_user",
                              [cube_id |-> cube_id, target_user_id |-> req.target_user_id])>>
    IN  IF g.status = "raised" THEN Failed(<<>>, g)
        ELSE IF res.raised THEN Engine(Failed(calls, g), res)
        ELSE Engine(Handled(200, "Cube shared successfully", calls, TRUE, g), res)

\* share_cube(cube_id, share_request): res = what share_cube_with_user does
share_cube(cube_id, req, mi, h, reg, nid, regOk, ctorOk, res) ==
    LET g == get_mos_instance(mi, h, reg, nid, regOk, ctorOk)
        calls == <<EngineCall(g.ret, "share_cube_with_user",
                              [cube_id |-> cube_id, target_user_id |-> req.target_user_id])>>
    IN  IF g.status = "raised" THEN Failed(<<>>, g)
        ELSE IF res.raised THEN Engine(Failed(calls, g), res)
        ELSE IF Val(res.value)
        THEN Engine(Handled(200, "Cube shared successfully", calls, TRUE, g), res)
        ELSE \* HTTPException(500, "Failed to share cube") is caught by the
             \* handler's own `except Exception` and wrapped again
             Engine(Failed(calls, g), res)

(***************************************************************************)
(* The engine behind the handlers: the cubes registered in the cached MOS  *)
(* object and the memories its cubes hold                                  *)
(***************************************************************************)
\* an engine without cubes and memories; no dict handed out
NoEngine == [cubes |-> {}, memories |-> {}]
NoDicts == <<>>

\* the user an engine method acts for: its user_id argument, or the
\* instance's current user_id when the argument is None
target_user(mos, user_id) == IF user_id = None THEN mos.user_id ELSE Val(user_id)

\* MOS.get: the stored memory, or an exception for a cube that is not
\* registered or an id the cube does not hold
mos_get(eng, mem_cube_id, memory_id) ==
    IF mem_cube_id \in eng.cubes /\ <<mem_cube_id, memory_id>> \in eng.memories
    THEN Returns(Some([id |-> memory_id]))
    ELSE Raises

\* MOS.add raises for a cube that is not registered
mos_add_ok(eng, mem_cube_id) == mem_cube_id # None /\ Val(mem_cube_id) \in eng.cubes

\* MOS.get_all returns the memories of the registered cubes
mos_get_all(eng) == Returns(Some({m \in eng.memories : m[1] \in eng.cubes}))

\* a MOS object starts with mem_cubes = {}: the engine seen through the
\* object cached after a call that found mi cached
engine_of(eng, mi, g) == IF g.mi = mi THEN eng ELSE [eng EXCEPT !.cubes = {}]

(***************************************************************************)
(* Router: handlers of cubes and memories                                  *)
(***************************************************************************)
MemCubeRegister(mem_cube_name_or_path, mem_cube_id, user_id) ==
    [mem_cube_name_or_path |-> mem_cube_name_or_path, mem_cube_id |-> mem_cube_id,
     user_id |-> user_id]

\* register_mem_cube(mem_cube): engOk = mos_instance.register_mem_cube returns
register_mem_cube(req, mi, h, reg, nid, regOk, ctorOk, engOk) ==
    LET g == get_mos_instance(mi, h, reg, nid, regOk, ctorOk)
        calls == <<EngineCall(g.ret, "register_mem_cube",
                              [mem_cube_name_or_path |-> req.mem_cube_name_or_path,
                               mem_cube_id |-> req.mem_cube_id, user_id |-> req.user_id])>>
    IN  IF g.status = "raised" THEN Failed(<<>>, g)
        ELSE IF ~engOk THEN Failed(calls, g)
        ELSE Handled(200, "MemCube registered successfully", calls, TRUE, g)

unregister_mem_cube_config_user(mem_cube_id, user_id, mi, h, reg, nid, regOk, ctorOk, engOk) ==
    LET g == get_mos_instance(mi, h, reg, nid, regOk, ctorOk)
        calls == <<EngineCall(g.ret, "unregister_mem_cube",
                              [mem_cube_id |-> mem_cube_id,
                               user_id |-> IF user_id = None
                                           THEN Some(g.heap[g.ret].config.user_id)
                                           ELSE user_id])>>
    IN  IF g.status = "raised" THEN Failed(<<>>, g)
        ELSE IF ~engOk THEN Failed(calls, g)
        ELSE Handled(200, "MemCube unregistered successfully", calls, TRUE, g)

\* unregister_mem_cube(mem_cube_id, user_id=None)
unregister_mem_cube(mem_cube_id, user_id, mi, h, reg, nid, regOk, ctorOk, engOk) ==
    LET g == get_mos_instance(mi, h, reg, nid, regOk, ctorOk)
        calls == <<EngineCall(g.ret, "unregister_mem_cube",
                              [mem_cube_id |-> mem_cube_id, user_id |-> user_id])>>
    IN  IF g.status = "raised" THEN Failed(<<>>, g)
        ELSE IF ~engOk THEN Failed(calls, g)
        ELSE Handled(200, "MemCube unregistered successfully", calls, TRUE, g)

\* get_all_memories(mem_cube_id=None, user_id=None): res = what get_all does
get_all_memories(mem_cube_id, user_id, mi, h, reg, nid, regOk, ctorOk, res) ==
    LET g == get_mos_instance(mi, h, reg, nid, regOk, ctorOk)
        calls == <<EngineCall(g.ret, "get_all",
                              [mem_cube_id |-> mem_cube_id, user_id |-> user_id])>>
    IN  IF g.status = "raised" THEN Failed(<<>>, g)
        ELSE IF res.raised THEN Engine(Failed(calls, g), res)
        ELSE Engine([Handled(200, "Memories retrieved successfully", calls, TRUE, g)
                        EXCEPT !.data = res.value], res)

get_memory_empty_on_error(mem_cube_id, memory_id, user_id, mi, h, reg, nid, regOk, ctorOk, res) ==
    LET g == get_mos_instance(mi, h, reg, nid, regOk, ctorOk)
        calls == <<EngineCall(g.ret, "get", [mem_cube_id |-> mem_cube_id,
                                             memory_id |-> memory_id, user_id |-> user_id])>>
    IN  IF g.status = "raised" THEN Failed(<<>>, g)
        ELSE Engine([Handled(200, "Memory retrieved successfully", calls, TRUE, g)
                        EXCEPT !.data = res.value], res)

\* get_memory(mem_cube_id, memory_id, user_id=None): res = what get does
get_memory(mem_cube_id, memory_id, user_id, mi, h, reg, nid, regOk, ctorOk, res) ==
    LET g == get_mos_instance(mi, h, reg, nid, regOk, ctorOk)
        calls == <<EngineCall(g.ret, "get", [mem_cube_id |-> mem_cube_id,
                                             memory_id |-> memory_id, user_id |-> user_id])>>
    IN  IF g.status = "raised" THEN Failed(<<>>, g)
        ELSE IF res.raised THEN Engine(Failed(calls, g), res)
        ELSE Engine([Handled(200, "Memory retrieved successfully", calls, TRUE, g)
                        EXCEPT !.data = res.value], res)

(***************************************************************************)
(* Router: create_user                                                     *)
(***************************************************************************)
\* UserCreate: role defaults to "USER"
UserCreate(user_name, role, user_id) ==
    [user_name |-> user_name, role |-> role, user_id |-> user_id]

\* the values of the enumeration UserRole
UserRoles == {"ROOT", "ADMIN", "USER", "GUEST"}

\* MOS.create_user(user_id, role, user_name): the registry it leaves
mos_create_user(reg, user_id, role, user_name) ==
    IF validate_user(reg, user_id) THEN reg
    ELSE create_user(reg, IF user_name = None THEN user_id ELSE Val(user_name), role, user_id)

\* create_user(user_create) of the router: engOk = mos_instance.create_user
\* does not raise
router_create_user(req, mi, h, reg, nid, regOk, ctorOk, engOk) ==
    LET g == get_mos_instance(mi, h, reg, nid, regOk, ctorOk)
        calls == <<EngineCall(g.ret, "create_user",
                              [user_id |-> req.user_id, role |-> req.role,
                               user_name |-> req.user_name])>>
    IN  IF g.status = "raised" THEN Failed(<<>>, g)
        ELSE IF req.role \notin UserRoles
        THEN \* UserRole(user_create.role) raises ValueError
             Failed(<<>>, g)
        ELSE IF ~engOk THEN Failed(calls, g)
        ELSE [Handled(200, "User created successfully", calls, TRUE,
                      [g EXCEPT !.reg = mos_create_user(@, req.user_id, req.role,
                                                        req.user_name)])
                 EXCEPT !.data = Some([user_id |-> req.user_id])]

(***************************************************************************)
(* Inputs                                                                  *)
(***************************************************************************)
\* registries the process can start with (the registry is persistent)
InitialRegistries ==
    SUBSET {UserRec("default_user", "default_user", "USER"), UserRec("u1", "u1", "ADMIN")}

\* configs handed to set_mos_instance
SetConfigs ==
    {MOSConfig(DEFAULT_CONFIG),
     [MOSConfig(DEFAULT_CONFIG) EXCEPT !.user_id = "u2", !.top_k = 3]}

AddRequests ==
    {MemoryCreate(m, c, d, cube, None) :
        m \in {None, Some(<<>>), Some(<<Message("user", "Hello")>>)},
        c \in {None, Some(""), Some("remember X")},
        d \in {None, Some(""), Some("/doc.txt")},
        cube \in {Some("c1")}}

ConfigRequests ==
    {ConfigRequest(u, s, k, t, a) :
        u \in {None, Some("u1")},
        s \in {None, Some("s1")},
        k \in {None, Some(0)},
        t \in {None, Some(FALSE)},
        a \in {None, Some(TRUE)}}

\* what the persistent memory store holds when the process starts
InitialEngines == {[NoEngine EXCEPT !.memories = m] : m \in SUBSET {<<"c1", "m1">>}}

ChatRequests == {ChatRequest("What is X?", None)}
ChatReplies == {None, Some(""), Some("X is Y")}
ShareRequests == {CubeShare("u1", None)}
CubeRequests == {MemCubeRegister("/cubes/c1", Some("c1"), None)}
MemoryIds == {"m1", "m2"}
GatewayAddRequests ==
    {MemoryCreate(None, c, None, Some("c1"), None) : c \in {None, Some("remember X")}}

UserRequests ==
    {UserCreate(None, role, "u3") : role \in {"USER", "ADMIN", "SUPERUSER"}}

ScopeConfigRequests ==
    {ConfigRequest(u, None, None, None, None) : u \in {None, Some("u1")}}
ScopeUsers == {None, Some("u1")}
ScopeCubes == {None, Some("c1")}

(***************************************************************************)
(* Spec: calls run one after the other                                     *)
(***************************************************************************)
ThreadIds == 1..NumThreads
IdleThread == [fn |-> "none", pc |-> "idle", config |-> MOSConfig(DEFAULT_CONFIG),
               exists |-> FALSE, obj |-> NoInst, status |-> "none", ret |-> NoInst,
               since |-> NoInst]

Called(op, req, before, r) ==
    [op |-> op, req |-> req, before |-> before, status |-> r.g.status, ret |-> r.g.ret,
     boot |-> r.g.boot, ctor |-> r.g.ctor, code |-> r.code, message |-> r.message,
     calls |-> r.calls, getCalled |-> r.getCalled, data |-> r.data, logged |-> r.logged,
     eres |-> r.eres]

Summary(l) ==
    [op |-> l.op, req |-> l.req, status |-> l.status, ret |-> l.ret, before |-> l.before,
     ctor |-> l.ctor, code |-> l.code]

NoCall ==
    [op |-> "none", req |-> None, before |-> NoInst, status |-> "none", ret |-> NoInst,
     boot |-> FALSE, ctor |-> 0, code |-> 0, message |-> "", calls |-> <<>>,
     getCalled |-> FALSE, data |-> None, logged |-> FALSE,
     eres |-> [called |-> FALSE, raised |-> FALSE, value |-> None]]

Init ==
    /\ MOS_INSTANCE = NoInst
    /\ heap = <<>>
    /\ users \in InitialRegistries
    /\ nextId = 1
    /\ prev = Summary(NoCall)
    /\ last = NoCall
    /\ th = [p \in ThreadIds |-> IdleThread]
    /\ swapped = FALSE
    /\ started = 0
    /\ replaced = NoInst
    /\ engine = NoEngine
    /\ dicts = NoDicts

\* the state a call leaves, and the record of the call
Finish(op, req, r) ==
    /\ MOS_INSTANCE' = r.g.mi
    /\ heap' = Collect(r.g.heap, {r.g.mi})
    /\ users' = r.g.reg
    /\ nextId' = r.g.nid
    /\ prev' = Summary(last)
    /\ last' = Called(op, req, MOS_INSTANCE, r)
    /\ UNCHANGED <<th, swapped, started, replaced, engine, dicts>>

\* what goes wrong during a call: nothing, a registry call raises, the MOS
\* constructor raises, or the engine operation raises
Failures == {"none", "registry", "constructor", "engine"}

CallGet ==
    /\ MOS_INSTANCE = NoInst => nextId <= MaxInst
    /\ \E fail \in Failures \ {"engine"} :
          Finish("get", None,
                 Handled(0, "", <<>>, TRUE,
                         get_mos_instance(MOS_INSTANCE, heap, users, nextId,
                                          fail # "registry", fail # "constructor")))

CallSet ==
    /\ nextId <= MaxInst
    /\ \E config \in SetConfigs, fail \in Failures \ {"engine"} :
          Finish("set", config,
                 Handled(0, "", <<>>, FALSE,
                         set_mos_instance(config, MOS_INSTANCE, heap, users, nextId,
                                          fail # "registry", fail # "constructor")))

CallReset ==
    Finish("reset", None,
           Handled(0, "", <<>>, FALSE,
                   Outcome("ok", NoInst, reset_mos_instance(MOS_INSTANCE), heap, users,
                           nextId, FALSE, 0)))

Next ==
    \/ CallGet
    \/ CallSet
    \/ CallReset

Spec == Init /\ [][Next]_vars

(***************************************************************************)
(* SpecAdd, SpecConfigure: requests to one handler, one after the other,   *)
(* with set_mos_instance and reset_mos_instance called in between          *)
(***************************************************************************)
\* the state a handler leaves, and the record of the request
Respond(op, req, r) ==
    /\ MOS_INSTANCE' = r.g.mi
    /\ heap' = Collect(r.g.heap, {r.g.mi})
    /\ users' = r.g.reg
    /\ nextId' = r.g.nid
    /\ last' = Called(op, req, MOS_INSTANCE, r)
    /\ UNCHANGED <<prev, th, swapped, started, replaced, engine, dicts>>

PostMemories ==
    /\ MOS_INSTANCE = NoInst => nextId <= MaxInst
    /\ \E req \in AddRequests, fail \in Failures :
          Respond("add_memory", req,
                  add_memory(req, MOS_INSTANCE, heap, users, nextId,
                             fail # "registry", fail # "constructor", fail # "engine"))

PostConfigure ==
    /\ MOS_INSTANCE = NoInst => nextId <= MaxInst
    /\ \E req \in ConfigRequests, fail \in Failures \ {"engine"} :
          Respond("set_config", req,
                  set_config(req, MOS_INSTANCE, heap, users, nextId,
                             fail # "registry", fail # "constructor"))

Replace ==
    /\ nextId <= MaxInst
    /\ \E config \in SetConfigs :
          Respond("set", config,
                  Handled(0, "", <<>>, FALSE,
                          set_mos_instance(config, MOS_INSTANCE, heap, users, nextId,
                                           TRUE, TRUE)))

Reset ==
    Respond("reset", None,
            Handled(0, "", <<>>, FALSE,
                    Outcome("ok", NoInst, reset_mos_instance(MOS_INSTANCE), heap, users,
                            nextId, FALSE, 0)))

NextAdd ==
    \/ PostMemories
    \/ Replace
    \/ Reset

SpecAdd == Init /\ [][NextAdd]_vars

NextConfigure ==
    \/ PostConfigure
    \/ Replace
    \/ Reset

SpecConfigure == Init /\ [][NextConfigure]_vars

(***************************************************************************)
(* SpecGateway: requests to the handlers of cubes, memories and chat, one  *)
(* after the other, over an engine with registered cubes and memories      *)
(***************************************************************************)
InitGateway ==
    /\ MOS_INSTANCE = NoInst
    /\ heap = <<>>
    /\ users \in InitialRegistries
    /\ nextId = 1
    /\ prev = Summary(NoCall)
    /\ last = NoCall
    /\ th = [p \in ThreadIds |-> IdleThread]
    /\ swapped = FALSE
    /\ started = 0
    /\ replaced = NoInst
    /\ engine \in InitialEngines
    /\ dicts = NoDicts

\* the state a handler leaves, the engine included, and the record of the
\* request and of the one before it
Answer(op, req, r, eng) ==
    /\ MOS_INSTANCE' = r.g.mi
    /\ heap' = Collect(r.g.heap, {r.g.mi})
    /\ users' = r.g.reg
    /\ nextId' = r.g.nid
    /\ prev' = Summary(last)
    /\ last' = Called(op, req, MOS_INSTANCE, r)
    /\ engine' = eng
    /\ UNCHANGED <<th, swapped, started, replaced, dicts>>

\* the engine as the handler's mos_instance shows it
Seen(fail) ==
    engine_of(engine, MOS_INSTANCE,
              get_mos_instance(MOS_INSTANCE, heap, users, nextId,
                               fail # "registry", fail # "constructor"))

PostChat ==
    /\ MOS_INSTANCE = NoInst => nextId <= MaxInst
    /\ \E req \in ChatRequests, fail \in Failures, reply \in ChatReplies :
          Answer("chat", req,
                 chat(req, MOS_INSTANCE, heap, users, nextId,
                      fail # "registry", fail # "constructor",
                      IF fail = "engine" THEN Raises ELSE Returns(reply)),
                 Seen(fail))

PostShare ==
    /\ MOS_INSTANCE = NoInst => nextId <= MaxInst
    /\ \E req \in ShareRequests, fail \in Failures, success \in BOOLEAN :
          Answer("share_cube", req,
                 share_cube("c1", req, MOS_INSTANCE, heap, users, nextId,
                            fail # "registry", fail # "constructor",
                            IF fail = "engine" THEN Raises ELSE Returns(Some(success))),
                 Seen(fail))

PostMemCubes ==
    /\ MOS_INSTANCE = NoInst => nextId <= MaxInst
    /\ \E req \in CubeRequests, fail \in Failures :
          LET r == register_mem_cube(req, MOS_INSTANCE, heap, users, nextId,
                                     fail # "registry", fail # "constructor",
                                     fail # "engine")
          IN  Answer("register_mem_cube", req, r,
                     IF r.code = 200
                     THEN [Seen(fail) EXCEPT !.cubes = @ \cup {Val(req.mem_cube_id)}]
                     ELSE Seen(fail))

PostMemory ==
    /\ MOS_INSTANCE = NoInst => nextId <= MaxInst
    /\ \E req \in GatewayAddRequests, fail \in Failures :
          LET r == add_memory(req, MOS_INSTANCE, heap, users, nextId,
                              fail # "registry", fail # "constructor",
                              fail # "engine" /\ mos_add_ok(Seen(fail), req.mem_cube_id))
          IN  Answer("add_memory", req, r,
                     IF r.code = 200
                     THEN [Seen(fail) EXCEPT !.memories = @ \cup {<<Val(req.mem_cube_id), "m2">>}]
                     ELSE IF r.getCalled THEN Seen(fail) ELSE engine)

GetMemory ==
    /\ MOS_INSTANCE = NoInst => nextId <= MaxInst
    /\ \E memory_id \in MemoryIds, fail \in Failures :
          Answer("get_memory", [mem_cube_id |-> "c1", memory_id |-> memory_id, user_id |-> None],
                 get_memory("c1", memory_id, None, MOS_INSTANCE, heap, users, nextId,
                            fail # "registry", fail # "constructor",
                            IF fail = "engine" THEN Raises
                            ELSE mos_get(Seen(fail), "c1", memory_id)),
                 Seen(fail))

ReplaceEngine ==
    /\ nextId <= MaxInst
    /\ \E config \in SetConfigs :
          LET g == set_mos_instance(config, MOS_INSTANCE, heap, users, nextId, TRUE, TRUE)
          IN  Answer("set", config, Handled(0, "", <<>>, FALSE, g),
                     engine_of(engine, MOS_INSTANCE, g))

ResetEngine ==
    LET g == Outcome("ok", NoInst, reset_mos_instance(MOS_INSTANCE), heap, users,
                     nextId, FALSE, 0)
    IN  Answer("reset", None, Handled(0, "", <<>>, FALSE, g),
               engine_of(engine, MOS_INSTANCE, g))

NextGateway ==
    \/ PostChat
    \/ PostShare
    \/ PostMemCubes
    \/ PostMemory
    \/ GetMemory
    \/ ReplaceEngine
    \/ ResetEngine

SpecGateway == InitGateway /\ [][NextGateway]_vars

(***************************************************************************)
(* SpecUsers: create-user requests, one after the other, with              *)
(* set_mos_instance and reset_mos_instance called in between               *)
(***************************************************************************)
PostUsers ==
    /\ MOS_INSTANCE = NoInst => nextId <= MaxInst
    /\ \E req \in UserRequests, fail \in Failures :
          Answer("create_user", req,
                 router_create_user(req, MOS_INSTANCE, heap, users, nextId,
                                    fail # "registry", fail # "constructor",
                                    fail # "engine"),
                 Seen(fail))

NextUsers ==
    \/ PostUsers
    \/ ReplaceEngine
    \/ ResetEngine

SpecUsers == Init /\ [][NextUsers]_vars

(***************************************************************************)
(* SpecScope: requests with and without user_id and mem_cube_id, after     *)
(* configure requests that set the instance's user_id                      *)
(***************************************************************************)
ConfigureUser ==
    /\ MOS_INSTANCE = NoInst => nextId <= MaxInst
    /\ \E req \in ScopeConfigRequests, fail \in Failures \ {"engine"} :
          Answer("set_config", req,
                 set_config(req, MOS_INSTANCE, heap, users, nextId,
                            fail # "registry", fail # "constructor"),
                 Seen(fail))

GetMemories ==
    /\ MOS_INSTANCE = NoInst => nextId <= MaxInst
    /\ \E mem_cube_id \in ScopeCubes, user_id \in ScopeUsers, fail \in Failures :
          Answer("get_all_memories", [mem_cube_id |-> mem_cube_id, user_id |-> user_id],
                 get_all_memories(mem_cube_id, user_id, MOS_INSTANCE, heap, users, nextId,
                                  fail # "registry", fail # "constructor",
                                  IF fail = "engine" THEN Raises
                                  ELSE mos_get_all(Seen(fail))),
                 Seen(fail))

DeleteMemCube ==
    /\ MOS_INSTANCE = NoInst => nextId <= MaxInst
    /\ \E user_id \in ScopeUsers, fail \in Failures :
          LET r == unregister_mem_cube("c1", user_id, MOS_INSTANCE, heap, users, nextId,
                                       fail # "registry", fail # "constructor",
                                       fail # "engine")
          IN  Answer("unregister_mem_cube", [mem_cube_id |-> Some("c1"), user_id |-> user_id],
                     r,
                     IF r.code = 200 THEN [Seen(fail) EXCEPT !.cubes = @ \ {"c1"}]
                     ELSE Seen(fail))

NextScope ==
    \/ ConfigureUser
    \/ GetMemories
    \/ DeleteMemCube
    \/ PostMemCubes
    \/ ReplaceEngine
    \/ ResetEngine

SpecScope == InitGateway /\ [][NextScope]_vars

(***************************************************************************)
(* SpecConfig: DEFAULT_CONFIG as Python dict objects.  dicts maps the      *)
(* identity of a dict object to its items; an item whose value is a dict   *)
(* holds that dict's identity.  Callers of get_default_config change items *)
(* of the dict they were handed and of the dicts reachable from it.        *)
(***************************************************************************)
\* identities of the dict objects the module creates when it is imported
BASELINE == 0
CHAT_MODEL == 1
MEM_READER == 2
EMBEDDER == 3
CHUNKER == 4

\* the dict objects of DEFAULT_CONFIG (the "config" level of each nested
\* dict is folded into its parent)
ImportedDicts ==
    (BASELINE :> (DEFAULT_CONFIG @@ [chat_model |-> CHAT_MODEL, mem_reader |-> MEM_READER]))
    @@ (CHAT_MODEL :> [backend |-> "openai", temperature |-> "0.7"])
    @@ (MEM_READER :> [backend |-> "simple_struct", embedder |-> EMBEDDER,
                       chunker |-> CHUNKER])
    @@ (EMBEDDER :> [backend |-> "universal_api", provider |-> "openai"])
    @@ (CHUNKER :> [backend |-> "sentence", chunk_size |-> "512"])

\* the dicts handed out by get_default_config
HandedOut(d) == DOMAIN d \ DOMAIN ImportedDicts

\* get_default_config(): DEFAULT_CONFIG.copy() is a new dict with the items
\* of DEFAULT_CONFIG; the nested dicts are the same objects
get_default_config(d) ==
    LET new == Cardinality(DOMAIN d)
    IN  [ret |-> new, dicts |-> (new :> d[BASELINE]) @@ d]

\* the dict reached from dict id along the keys of path
Lookup(d, id, path) ==
    IF path = <<>> THEN id
    ELSE IF Len(path) = 1 THEN d[id][path[1]]
    ELSE d[d[id][path[1]]][path[2]]

\* obj[key] = value
setitem(d, obj, key, value) == [d EXCEPT ![obj] = [@ EXCEPT ![key] = value]]

\* the configuration a dict object stands for, nested dicts resolved
Deep(d, id) ==
    [top |-> [k \in DOMAIN DEFAULT_CONFIG |-> d[id][k]],
     chat_model |-> d[d[id].chat_model],
     mem_reader |-> d[d[id].mem_reader].backend,
     embedder |-> d[d[d[id].mem_reader].embedder],
     chunker |-> d[d[d[id].mem_reader].chunker]]

\* items a caller sets: at the top level, and in the nested dicts
TopOverrides == {<<"top_k", 3>>, <<"top_k", 10>>, <<"user_id", "u2">>}
NestedOverrides ==
    {<<(<<"chat_model">>), "temperature", "0.0">>,
     <<(<<"mem_reader", "embedder">>), "provider", "ollama">>,
     <<(<<"mem_reader", "chunker">>), "chunk_size", "256">>}

InitConfig ==
    /\ MOS_INSTANCE = NoInst
    /\ heap = <<>>
    /\ users \in InitialRegistries
    /\ nextId = 1
    /\ prev = Summary(NoCall)
    /\ last = NoCall
    /\ th = [p \in ThreadIds |-> IdleThread]
    /\ swapped = FALSE
    /\ started = 0
    /\ replaced = NoInst
    /\ engine = NoEngine
    /\ dicts = ImportedDicts

\* the record of a call on the configuration dicts
ConfigCall(op, req, value) == [NoCall EXCEPT !.op = op, !.req = req, !.data = Some(value)]

CallGetDefaultConfig ==
    /\ Cardinality(HandedOut(dicts)) < MaxConfigs
    /\ LET r == get_default_config(dicts)
       IN  /\ dicts' = r.dicts
           /\ last' = ConfigCall("get_default_config", r.ret, Deep(r.dicts, r.ret))
    /\ UNCHANGED <<MOS_INSTANCE, heap, users, nextId, prev, th, swapped, started, replaced,
                   engine>>

SetTopLevel ==
    /\ \E cfg \in HandedOut(dicts), o \in TopOverrides :
          /\ dicts' = setitem(dicts, cfg, o[1], o[2])
          /\ last' = ConfigCall("setitem", <<cfg, o>>, Deep(dicts', cfg))
    /\ UNCHANGED <<MOS_INSTANCE, heap, users, nextId, prev, th, swapped, started, replaced,
                   engine>>

SetNested ==
    /\ \E cfg \in HandedOut(dicts), o \in NestedOverrides :
          /\ dicts' = setitem(dicts, Lookup(dicts, cfg, o[1]), o[2], o[3])
          /\ last' = ConfigCall("setitem", <<cfg, o>>, Deep(dicts', cfg))
    /\ UNCHANGED <<MOS_INSTANCE, heap, users, nextId, prev, th, swapped, started, replaced,
                   engine>>

\* get_mos_instance: temp_config = MOSConfig(**DEFAULT_CONFIG)
ReadBaseline ==
    /\ last' = ConfigCall("MOSConfig", BASELINE, Deep(dicts, BASELINE))
    /\ UNCHANGED <<MOS_INSTANCE, heap, users, nextId, prev, th, swapped, started, replaced,
                   engine, dicts>>

NextConfig ==
    \/ CallGetDefaultConfig
    \/ SetTopLevel
    \/ SetNested
    \/ ReadBaseline

SpecConfig == InitConfig /\ [][NextConfig]_vars

(***************************************************************************)
(* SpecBaseline: configure, reset_mos_instance and get_mos_instance with   *)
(* the configuration as objects.  dicts holds DEFAULT_CONFIG and the       *)
(* MOSConfig object of the cached instance; heap[i].config is the identity *)
(* of that object, so that an assignment to mos.config.<field> changes the *)
(* object it names, whichever that is.                                     *)
(***************************************************************************)
\* an object identity not in use
Fresh(d) == CHOOSE n \in 0..Cardinality(DOMAIN d) : n \notin DOMAIN d

\* MOS(config) with config the identity of a MOSConfig object
MOSObject(ref, d) ==
    [config |-> ref, user_id |-> d[ref].user_id, session_id |-> d[ref].session_id]

\* the MOS object i as a handler reads it: mos.user_id, mos.session_id, mos.config.*
View(h, d, i) ==
    [config |-> MOSConfig(d[h[i].config]), user_id |-> h[i].user_id,
     session_id |-> h[i].session_id]

\* the objects still referenced: DEFAULT_CONFIG and the cached instance's config
CollectDicts(d, h, mi) ==
    [o \in (DOMAIN d) \cap (DOMAIN ImportedDicts
                              \cup (IF mi = NoInst THEN {} ELSE {h[mi].config})) |-> d[o]]

get_mos_instance_obj_alias(mi, h, d, reg, nid, regOk, ctorOk) ==
    IF mi = NoInst
    THEN LET temp_config == d[BASELINE]
             reg1 == create_user_if_not_exists(temp_config.user_id, reg)
         IN  IF ~regOk
             THEN [g |-> Outcome("raised", NoInst, mi, h, reg, nid, TRUE, 0), dicts |-> d]
             ELSE IF ~CtorSucceeds(reg1, temp_config, ctorOk)
             THEN [g |-> Outcome("raised", NoInst, mi, h, reg1, nid, TRUE, 1), dicts |-> d]
             ELSE [g |-> Outcome("ok", nid, nid, (nid :> MOSObject(BASELINE, d)) @@ h,
                                 reg1, nid + 1, TRUE, 1),
                   dicts |-> d]
    ELSE [g |-> Outcome("ok", mi, mi, h, reg, nid, FALSE, 0), dicts |-> d]

\* get_mos_instance() over objects: MOSConfig(**DEFAULT_CONFIG) is a new
\* object holding the values DEFAULT_CONFIG has at the time of the call
get_mos_instance_obj(mi, h, d, reg, nid, regOk, ctorOk) ==
    IF mi = NoInst
    THEN LET new == Fresh(d)
             d1 == (new :> MOSConfig(d[BASELINE])) @@ d
             temp_config == d1[new]
             reg1 == create_user_if_not_exists(temp_config.user_id, reg)
         IN  IF ~regOk
             THEN [g |-> Outcome("raised", NoInst, mi, h, reg, nid, TRUE, 0), dicts |-> d]
             ELSE IF ~CtorSucceeds(reg1, temp_config, ctorOk)
             THEN [g |-> Outcome("raised", NoInst, mi, h, reg1, nid, TRUE, 1), dicts |-> d]
             ELSE [g |-> Outcome("ok", nid, nid, (nid :> MOSObject(new, d1)) @@ h,
                                 reg1, nid + 1, TRUE, 1),
                   dicts |-> d1]
    ELSE [g |-> Outcome("ok", mi, mi, h, reg, nid, FALSE, 0), dicts |-> d]

\* set_config(config_request) over objects: the assignments go to the MOS
\* object get_mos_instance returned and to the object its config names
set_config_obj(req, mi, h, d, reg, nid, regOk, ctorOk) ==
    LET r == get_mos_instance_obj(mi, h, d, reg, nid, regOk, ctorOk)
        g == r.g
    IN  IF g.status = "raised"
        THEN [r |-> Failed(<<>>, g), dicts |-> r.dicts]
        ELSE LET mos == [user_id |-> g.heap[g.ret].user_id,
                         session_id |-> g.heap[g.ret].session_id,
                         config |-> r.dicts[g.heap[g.ret].config]]
                 new == set_config_apply(mos, req)
             IN  [r |-> Handled(200, "Configuration updated successfully", <<>>, TRUE,
                                [g EXCEPT !.heap = [g.heap EXCEPT
                                                      ![g.ret].user_id = new.user_id,
                                                      ![g.ret].session_id = new.session_id]]),
                  dicts |-> [r.dicts EXCEPT ![g.heap[g.ret].config] = new.config]]

BaselineConfigRequests ==
    {ConfigRequest(u, s, k, t, None) :
        u \in {None, Some("u1")},
        s \in {None, Some("s1")},
        k \in {None, Some(3)},
        t \in {None, Some(FALSE)}}

\* the state a call leaves, objects included, and the record of the call
AnswerObj(op, req, r, d) ==
    /\ MOS_INSTANCE' = r.g.mi
    /\ heap' = Collect(r.g.heap, {r.g.mi})
    /\ dicts' = CollectDicts(d, r.g.heap, r.g.mi)
    /\ users' = r.g.reg
    /\ nextId' = r.g.nid
    /\ prev' = Summary(last)
    /\ last' = Called(op, req, MOS_INSTANCE, r)
    /\ UNCHANGED <<th, swapped, started, replaced, engine>>

GetObj ==
    /\ MOS_INSTANCE = NoInst => nextId <= MaxInst
    /\ \E fail \in Failures \ {"engine"} :
          LET r == get_mos_instance_obj(MOS_INSTANCE, heap, dicts, users, nextId,
                                        fail # "registry", fail # "constructor")
          IN  AnswerObj("get", None, Handled(0, "", <<>>, TRUE, r.g), r.dicts)

ConfigureObj ==
    /\ MOS_INSTANCE = NoInst => nextId <= MaxInst
    /\ \E req \in BaselineConfigRequests, fail \in Failures \ {"engine"} :
          LET c == set_config_obj(req, MOS_INSTANCE, heap, dicts, users, nextId,
                                  fail # "registry", fail # "constructor")
          IN  AnswerObj("set_config", req, c.r, c.dicts)

\* reset_mos_instance(); the record keeps what the dropped object held
ResetObj ==
    AnswerObj("reset",
              IF MOS_INSTANCE = NoInst THEN None
              ELSE Some(View(heap, dicts, MOS_INSTANCE)),
              Handled(0, "", <<>>, FALSE,
                      Outcome("ok", NoInst, reset_mos_instance(MOS_INSTANCE), heap, users,
                              nextId, FALSE, 0)),
              dicts)

NextBaseline ==
    \/ GetObj
    \/ ConfigureObj
    \/ ResetObj

SpecBaseline == InitConfig /\ [][NextBaseline]_vars

(***************************************************************************)
(* SpecThreads: get_mos_instance, set_mos_instance and reset_mos_instance  *)
(* called from several threads.  start_config.py takes no lock, so the     *)
(* threads interleave between statements; a thread's position is           *)
(*   idle -> validate -> create -> ctor -> assign -> return -> idle        *)
(* and th[p] holds its locals: config, exists (what validate_user said),   *)
(* obj (the constructed object before it is stored), and what the call     *)
(* returned.  heap keeps the objects the global or a call in progress      *)
(* refers to.                                                              *)
(***************************************************************************)
Enter(p, fn, pc, config) ==
    th' = [th EXCEPT ![p] = [fn |-> fn, pc |-> pc, config |-> config, exists |-> FALSE,
                             obj |-> NoInst, status |-> "running", ret |-> NoInst,
                             since |-> IF fn = "get" THEN replaced ELSE NoInst]]

Goto(p, pc) == th' = [th EXCEPT ![p].pc = pc]

\* an exception leaves the call: nothing in start_config.py catches it
Raise(p) ==
    th' = [th EXCEPT ![p] = [IdleThread EXCEPT !.fn = th[p].fn, !.status = "raised"]]

\* get_mos_instance, `if _MOS_INSTANCE is None:` and the temporary objects
g_check(p) ==
    /\ th[p].pc = "idle"
    /\ started < MaxCalls
    /\ started' = started + 1
    /\ IF MOS_INSTANCE = NoInst
       THEN Enter(p, "get", "validate", MOSConfig(DEFAULT_CONFIG))
       ELSE Enter(p, "get", "return", MOSConfig(DEFAULT_CONFIG))
    /\ UNCHANGED <<MOS_INSTANCE, heap, users, nextId, prev, last, engine, dicts, swapped,
                   replaced>>

\* set_mos_instance, `temp_user_manager = UserManager()`
s_enter(p) ==
    /\ th[p].pc = "idle"
    /\ started < MaxCalls
    /\ started' = started + 1
    /\ \E config \in SetConfigs : Enter(p, "set", "validate", config)
    /\ swapped' = TRUE
    /\ replaced' = NoInst
    /\ UNCHANGED <<MOS_INSTANCE, heap, users, nextId, prev, last, engine, dicts>>

t_validate_skip(p) ==
    /\ th[p].pc = "validate"
    /\ th' = [th EXCEPT ![p].exists = validate_user(users, th[p].config.user_id),
                        ![p].pc = "ctor"]
    /\ UNCHANGED <<MOS_INSTANCE, heap, users, nextId, prev, last, engine, dicts, swapped,
                   started, replaced>>

\* create_user_if_not_exists, `if not user_manager.validate_user(user_id):`
t_validate(p) ==
    /\ th[p].pc = "validate"
    /\ \/ th' = [th EXCEPT ![p].exists = validate_user(users, th[p].config.user_id),
                           ![p].pc = IF validate_user(users, th[p].config.user_id)
                                     THEN "ctor" ELSE "create"]
       \/ Raise(p)
    /\ UNCHANGED <<MOS_INSTANCE, heap, users, nextId, prev, last, engine, dicts, swapped,
                   started, replaced>>

\* create_user_if_not_exists, `user_manager.create_user(...)`
t_create(p) ==
    /\ th[p].pc = "create"
    /\ \/ /\ users' = create_user(users, th[p].config.user_id, "USER", th[p].config.user_id)
          /\ Goto(p, "ctor")
       \/ /\ Raise(p)
          /\ UNCHANGED users
    /\ UNCHANGED <<MOS_INSTANCE, heap, nextId, prev, last, engine, dicts, swapped, started,
                   replaced>>

\* the right-hand side of `_MOS_INSTANCE = MOS(config=...)`
Construct(p) ==
    /\ th[p].pc = "ctor"
    /\ \/ /\ CtorSucceeds(users, th[p].config, TRUE)
          /\ heap' = Collect((nextId :> MOS(th[p].config)) @@ heap,
                              {MOS_INSTANCE, nextId} \cup {th[q].obj : q \in ThreadIds})
          /\ nextId' = nextId + 1
          /\ th' = [th EXCEPT ![p].obj = nextId, ![p].pc = "assign"]
       \/ /\ Raise(p)
          /\ UNCHANGED <<heap, nextId>>
    /\ UNCHANGED <<MOS_INSTANCE, users, prev, last, engine, dicts, swapped, started,
                   replaced>>

\* the store of `_MOS_INSTANCE = MOS(config=...)`
Assign(p) ==
    /\ th[p].pc = "assign"
    /\ MOS_INSTANCE' = th[p].obj
    /\ Goto(p, "return")
    /\ heap' = Collect(heap, {th[q].obj : q \in ThreadIds})
    /\ UNCHANGED <<users, nextId, prev, last, engine, dicts, swapped, started, replaced>>

\* `return _MOS_INSTANCE`: the global is read again
Return(p) ==
    /\ th[p].pc = "return"
    /\ th' = [th EXCEPT ![p] = [IdleThread EXCEPT !.fn = th[p].fn, !.status = "ok",
                                                   !.ret = MOS_INSTANCE,
                                                   !.since = th[p].since]]
    /\ replaced' = IF th[p].fn = "set" THEN th[p].obj ELSE replaced
    /\ UNCHANGED <<MOS_INSTANCE, heap, users, nextId, prev, last, engine, dicts, swapped,
                   started>>

\* temp_mos = MOS.__new__(MOS) of a get_mos_instance call in progress: an
\* object without __init__, named by a negative id
temp_mos(p) ==
    IF th[p].fn = "get" /\ th[p].pc \in {"validate", "create", "ctor", "assign"}
    THEN 0 - p ELSE NoInst

g_assign_temp(p) ==
    /\ th[p].fn = "get" /\ th[p].pc = "assign"
    /\ MOS_INSTANCE' = temp_mos(p)
    /\ Goto(p, "return")
    /\ UNCHANGED <<heap, users, nextId, prev, last, engine, dicts, swapped, started,
                   replaced>>

g_ctor(p) == th[p].fn = "get" /\ Construct(p)
g_assign(p) == th[p].fn = "get" /\ Assign(p)
g_return(p) == th[p].fn = "get" /\ Return(p)
s_ctor(p) == th[p].fn = "set" /\ Construct(p)
s_assign(p) == th[p].fn = "set" /\ Assign(p)
s_return(p) == th[p].fn = "set" /\ Return(p)

\* reset_mos_instance()
t_reset(p) ==
    /\ th[p].pc = "idle"
    /\ started < MaxCalls
    /\ started' = started + 1
    /\ MOS_INSTANCE' = reset_mos_instance(MOS_INSTANCE)
    /\ th' = [th EXCEPT ![p] = [IdleThread EXCEPT !.fn = "reset", !.status = "ok"]]
    /\ swapped' = TRUE
    /\ replaced' = NoInst
    /\ heap' = Collect(heap, {th[q].obj : q \in ThreadIds})
    /\ UNCHANGED <<users, nextId, prev, last, engine, dicts>>

NextThreads ==
    \E p \in ThreadIds :
        \/ g_check(p)
        \/ g_ctor(p)
        \/ g_assign(p)
        \/ g_return(p)
        \/ s_enter(p)
        \/ s_ctor(p)
        \/ s_assign(p)
        \/ s_return(p)
        \/ t_validate(p)
        \/ t_create(p)
        \/ t_reset(p)

SpecThreads == Init /\ [][NextThreads]_vars

(***************************************************************************)
(* Properties                                                              *)
(***************************************************************************)
Running == {"validate", "create", "ctor", "assign"}

\* C1: when several threads call get_mos_instance while no instance is
\* cached (and nothing replaces or resets it), the MOS object is constructed
\* once and every call returns the instance that is left in _MOS_INSTANCE.
C1_ConstructedOnce ==
    ~swapped =>
        /\ nextId - 1 <= 1
        /\ \A p \in ThreadIds :
              (th[p].fn = "get" /\ th[p].pc = "idle" /\ th[p].status = "ok")
                  => th[p].ret = MOS_INSTANCE

\* C2: at most one thread at a time is between the start of the user
\* bootstrap and the store to _MOS_INSTANCE, in get_mos_instance or
\* set_mos_instance.
C2_OneInFlight ==
    Cardinality({p \in ThreadIds : th[p].pc \in Running}) <= 1

\* C3: after set_mos_instance(config) has returned, _MOS_INSTANCE is the
\* object it constructed from config, not the one cached before, config's
\* user is in the registry, and the next get_mos_instance returns that object.
C3_ReplaceThenGet ==
    /\ (last.op = "set" /\ last.status = "ok") =>
          /\ MOS_INSTANCE = last.ret
          /\ last.ret # last.before
          /\ heap[last.ret] = MOS(last.req)
          /\ validate_user(users, last.req.user_id)
    /\ (prev.op = "set" /\ prev.status = "ok" /\ last.op = "get") =>
          /\ last.status = "ok"
          /\ last.ret = prev.ret
          /\ last.ret # prev.before
          /\ last.ctor = 0
          /\ validate_user(users, heap[last.ret].config.user_id)

C3_Witness ==
    /\ prev.op = "set" /\ prev.status = "ok" /\ prev.before # NoInst
    /\ last.op = "get" /\ last.ret = prev.ret
    /\ heap[last.ret].user_id = "u2"

\* C4: whenever a thread is about to invoke the MOS constructor, in
\* get_mos_instance or set_mos_instance, the config's user is in the registry;
\* if validate_user had said no, the user is there with the role USER.
C4_UserBeforeConstruction ==
    \A p \in ThreadIds :
        th[p].pc = "ctor" =>
            /\ validate_user(users, th[p].config.user_id)
            /\ ~th[p].exists =>
                  UserRec(th[p].config.user_id, th[p].config.user_id, "USER") \in users

C4_Witness ==
    \E p \in ThreadIds, q \in ThreadIds :
        /\ th[p].pc = "ctor" /\ th[p].fn = "get" /\ ~th[p].exists
        /\ th[q].pc = "ctor" /\ th[q].fn = "set" /\ ~th[q].exists

\* C5: a get_mos_instance call that finds an instance cached returns that
\* instance, leaves it cached, constructs nothing and does not enter the
\* user bootstrap; two calls in a row return the same instance.
C5_CachedIsReturned ==
    /\ (last.op = "get" /\ last.before # NoInst) =>
          /\ last.status = "ok"
          /\ last.ret = last.before
          /\ MOS_INSTANCE = last.before
          /\ last.ctor = 0
          /\ ~last.boot
    /\ (prev.op = "get" /\ prev.status = "ok" /\ last.op = "get") =>
          (last.status = "ok" /\ last.ret = prev.ret)

C5_Witness ==
    /\ prev.op = "get" /\ prev.status = "ok" /\ prev.before = NoInst
    /\ last.op = "get" /\ last.before # NoInst /\ last.ret = prev.ret

\* C6: a get_mos_instance call that raises leaves _MOS_INSTANCE absent; the
\* next get_mos_instance call enters the bootstrap again, and when it
\* succeeds the object it constructed is the cached one.
C6_FailureNotCached ==
    /\ (last.op = "get" /\ last.status = "raised") =>
          (last.before = NoInst /\ MOS_INSTANCE = NoInst)
    /\ (prev.op = "get" /\ prev.status = "raised" /\ last.op = "get") =>
          /\ last.boot
          /\ last.status = "ok" =>
                /\ last.ctor = 1
                /\ last.ret # NoInst
                /\ MOS_INSTANCE = last.ret
                /\ heap[last.ret] = MOS(MOSConfig(DEFAULT_CONFIG))

C6_Witness ==
    /\ prev.op = "get" /\ prev.status = "raised" /\ prev.ctor = 1
    /\ last.op = "get" /\ last.status = "ok" /\ MOS_INSTANCE = last.ret

\* C7: after reset_mos_instance _MOS_INSTANCE is absent; the next
\* get_mos_instance enters the user bootstrap, invokes the constructor unless
\* the bootstrap raised, and what it returns is a new object, not the one
\* cached before the reset.
C7_ResetThenGet ==
    /\ last.op = "reset" => MOS_INSTANCE = NoInst
    /\ (prev.op = "reset" /\ last.op = "get") =>
          /\ last.before = NoInst
          /\ last.boot
          /\ last.ctor = 1 \/ last.status = "raised"
          /\ last.status = "ok" =>
                /\ last.ctor = 1
                /\ last.ret # NoInst
                /\ last.ret # prev.before
                /\ MOS_INSTANCE = last.ret

C7_Witness ==
    /\ prev.op = "reset" /\ prev.before # NoInst
    /\ last.op = "get" /\ last.status = "ok" /\ last.ctor = 1

\* the request carries no messages, memory_content or doc_path (None or empty)
NoMessages(req) == req.messages = None \/ req.messages = Some(<<>>)
NoContent(req) == req.memory_content = None \/ req.memory_content = Some("")
NoDocPath(req) == req.doc_path = None \/ req.doc_path = Some("")
AllAbsent(req) == NoMessages(req) /\ NoContent(req) /\ NoDocPath(req)

\* C8: an add_memory request without messages, memory_content and doc_path
\* is answered 400, makes no engine call and does not call get_mos_instance,
\* so nothing is constructed.
C8_MissingInputIs400 ==
    (last.op = "add_memory" /\ AllAbsent(last.req)) =>
        /\ last.code = 400
        /\ last.calls = <<>>
        /\ ~last.getCalled
        /\ last.ctor = 0 /\ ~last.boot
        /\ MOS_INSTANCE = last.before

C8_Witness ==
    /\ last.op = "add_memory" /\ last.code = 400
    /\ last.req.messages = Some(<<>>) /\ last.req.memory_content = Some("")
    /\ last.req.doc_path = None
    /\ MOS_INSTANCE = NoInst

\* C9: an add_memory request with at least one of messages, memory_content,
\* doc_path makes one engine add call, on the cached instance, carrying the
\* first present of messages, memory_content, doc_path and None for the other
\* two; it makes none only when get_mos_instance raised.
C9_Precedence ==
    (last.op = "add_memory" /\ ~AllAbsent(last.req)) =>
        /\ last.getCalled
        /\ Len(last.calls) <= 1
        /\ Len(last.calls) = 0 =>
              (last.before = NoInst /\ MOS_INSTANCE = NoInst /\ last.code = 500)
        /\ Len(last.calls) = 1 =>
              LET c == last.calls[1] IN
              /\ c.fn = "add" /\ c.inst = MOS_INSTANCE /\ c.inst # NoInst
              /\ c.mem_cube_id = last.req.mem_cube_id /\ c.user_id = last.req.user_id
              /\ ~NoMessages(last.req) =>
                    /\ c.messages = Some([i \in 1..Len(Val(last.req.messages)) |->
                                            [role |-> Val(last.req.messages)[i].role,
                                             content |-> Val(last.req.messages)[i].content]])
                    /\ c.memory_content = None /\ c.doc_path = None
              /\ (NoMessages(last.req) /\ ~NoContent(last.req)) =>
                    /\ c.memory_content = last.req.memory_content
                    /\ c.messages = None /\ c.doc_path = None
              /\ (NoMessages(last.req) /\ NoContent(last.req)) =>
                    /\ c.doc_path = last.req.doc_path
                    /\ c.messages = None /\ c.memory_content = None

C9_Witness ==
    /\ last.op = "add_memory" /\ last.code = 200 /\ Len(last.calls) = 1
    /\ ~NoMessages(last.req) /\ ~NoContent(last.req) /\ ~NoDocPath(last.req)
    /\ last.calls[1].memory_content = None

\* the field a configure request asks for, or the old one when it is None
Requested(opt, old) == IF opt = None THEN old ELSE Val(opt)

\* C10: a configure request answered 200 sets user_id, session_id, top_k,
\* enable_textual_memory and enable_activation_memory of the instance to the
\* values the request carries and keeps the others as they were; when an
\* instance was cached it is the same object afterwards and nothing is
\* constructed.
C10_PartialUpdate ==
    [][(last'.op = "set_config" /\ last'.code = 200) =>
          LET req == last'.req
              old == IF MOS_INSTANCE # NoInst THEN heap[MOS_INSTANCE]
                     ELSE MOS(MOSConfig(DEFAULT_CONFIG))
              new == heap'[MOS_INSTANCE']
          IN  /\ MOS_INSTANCE' # NoInst
              /\ new.user_id = Requested(req.user_id, old.user_id)
              /\ new.session_id = Requested(req.session_id, old.session_id)
              /\ new.config.top_k = Requested(req.top_k, old.config.top_k)
              /\ new.config.enable_textual_memory =
                    Requested(req.enable_textual_memory, old.config.enable_textual_memory)
              /\ new.config.enable_activation_memory =
                    Requested(req.enable_activation_memory,
                              old.config.enable_activation_memory)
              /\ new.config.user_id = old.config.user_id
              /\ new.config.session_id = old.config.session_id
              /\ MOS_INSTANCE # NoInst =>
                    /\ MOS_INSTANCE' = MOS_INSTANCE
                    /\ nextId' = nextId
                    /\ last'.ctor = 0 /\ ~last'.boot
                    /\ users' = users
      ]_vars

C10_Witness ==
    /\ last.op = "set_config" /\ last.code = 200 /\ last.before # NoInst
    /\ last.req.user_id = None /\ last.req.top_k = Some(0)
    /\ last.req.enable_textual_memory = Some(FALSE)
    /\ heap[MOS_INSTANCE].user_id = "u1"
    /\ heap[MOS_INSTANCE].config.top_k = 0
    /\ ~heap[MOS_INSTANCE].config.enable_textual_memory
    /\ ~heap[MOS_INSTANCE].config.enable_activation_memory

\* a get_mos_instance call of thread p that has returned an instance
Returned(p) == th[p].fn = "get" /\ th[p].pc = "idle" /\ th[p].status = "ok"

\* C19: a get_mos_instance call that begins after a set_mos_instance call
\* has finished, with no set or reset begun since, returns the object that
\* set_mos_instance stored, whatever calls were in flight meanwhile.
C19_GetAfterReplace ==
    \A p \in ThreadIds :
        (Returned(p) /\ th[p].since # NoInst /\ replaced = th[p].since)
            => th[p].ret = th[p].since

\* C20: _MOS_INSTANCE is None or an object whose constructor has returned,
\* and so is everything get_mos_instance returns; it is never the temp_mos
\* of a call in progress.
C20_OnlyConstructed ==
    /\ MOS_INSTANCE # NoInst =>
          /\ MOS_INSTANCE \in DOMAIN heap
          /\ MOS_INSTANCE \in 1..(nextId - 1)
          /\ \A q \in ThreadIds : MOS_INSTANCE # temp_mos(q)
    /\ \A p \in ThreadIds :
          (Returned(p) /\ th[p].ret # NoInst) =>
              /\ th[p].ret \in 1..(nextId - 1)
              /\ \A q \in ThreadIds : th[p].ret # temp_mos(q)

C20_Witness ==
    \E p \in ThreadIds, q \in ThreadIds :
        /\ Returned(p) /\ th[p].ret # NoInst /\ th[p].ret = MOS_INSTANCE
        /\ temp_mos(q) # NoInst /\ th[q].pc = "assign"

(***************************************************************************)
(* Properties of the handlers over the engine                              *)
(***************************************************************************)
\* the last request got an error response / the success envelope
IsError(l) == l.code >= 400
IsSuccess(l) == l.code = 200

\* C13: a chat request whose engine call returns None ends with the error
\* "No response generated", never with the success envelope; a reply that
\* is the empty string ends with the success envelope carrying it; and the
\* response to None differs from the response to an engine exception.
C13_NoneIsNotEmpty ==
    (last.op = "chat" /\ last.eres.called) =>
        /\ (~last.eres.raised /\ last.eres.value = None) =>
               /\ IsError(last) /\ last.message = "No response generated"
               /\ last.data = None
        /\ (~last.eres.raised /\ last.eres.value # None) =>
               /\ IsSuccess(last) /\ last.message = "Chat response generated"
               /\ last.data = last.eres.value
        /\ last.eres.raised =>
               /\ IsError(last) /\ last.message # "No response generated"
               /\ last.logged

C13_Witness ==
    /\ last.op = "chat" /\ last.eres.called /\ ~last.eres.raised /\ last.eres.value = None
    /\ prev.op = "chat" /\ prev.code = 200 /\ prev.ret = last.ret

\* C14: a share-cube request whose engine call returns false ends with an
\* error response, never with "Cube shared successfully"; one whose engine
\* call returns true ends with that success envelope.
C14_FalseIsFailure ==
    (last.op = "share_cube" /\ last.eres.called /\ ~last.eres.raised) =>
        IF Val(last.eres.value)
        THEN IsSuccess(last) /\ last.message = "Cube shared successfully"
        ELSE IsError(last) /\ last.message # "Cube shared successfully"

C14_Witness ==
    /\ last.op = "share_cube" /\ last.eres.called /\ ~last.eres.raised
    /\ last.eres.value = Some(FALSE) /\ last.code = 500

\* C16: when the engine call of a request raises, the response is a 500
\* error, not a success envelope, and the request made exactly one engine
\* call (no retry).
C16_EngineErrorIs500 ==
    last.eres.raised =>
        /\ last.code = 500
        /\ last.data = None
        /\ Len(last.calls) = 1

\* add-memory into a cube that was never registered
C16_Witness ==
    /\ last.op = "add_memory" /\ last.eres.raised
    /\ last.req.mem_cube_id = Some("c1") /\ "c1" \notin engine.cubes
    /\ last.req.memory_content = Some("remember X")

C18_FailureKeepsInstance ==
    /\ (IsError(last) /\ last.before # NoInst) => MOS_INSTANCE = last.before
    /\ (IsError(prev) /\ prev.before # NoInst /\ last.getCalled) =>
           /\ last.before = prev.before
           /\ last.ret = prev.before
           /\ last.ctor = 0

C18_Witness ==
    /\ IsError(prev) /\ prev.before # NoInst /\ prev.op = "chat"
    /\ last.getCalled /\ last.ret = prev.before /\ IsSuccess(last)

\* C11: a create-user request whose role is not a value of the role
\* enumeration gets a 4xx response, makes no create_user call on the
\* engine and leaves the user registry as it was.
C11_InvalidRoleRejected ==
    [][(last'.op = "create_user" /\ last'.req.role \notin UserRoles) =>
          /\ last'.code \in 400..499
          /\ last'.calls = <<>>
          /\ users' = users]_vars

\* C12: a get-all or unregister-cube request without user_id makes one
\* engine call, on the cached instance, with user_id (and mem_cube_id) passed
\* on as None, so that the engine acts for the instance's current user_id:
\* the one an earlier configure request set, if there was one.
C12_DefaultScope ==
    (last.op \in {"get_all_memories", "unregister_mem_cube"} /\ last.eres.called
        /\ last.req.user_id = None) =>
        /\ Len(last.calls) = 1
        /\ last.calls[1].inst = MOS_INSTANCE
        /\ last.op = "get_all_memories" =>
               last.calls[1].args.mem_cube_id = last.req.mem_cube_id
        /\ target_user(heap[MOS_INSTANCE], last.calls[1].args.user_id)
               = heap[MOS_INSTANCE].user_id
        /\ (prev.op = "set_config" /\ prev.code = 200 /\ prev.req.user_id # None) =>
               target_user(heap[MOS_INSTANCE], last.calls[1].args.user_id)
                   = Val(prev.req.user_id)

C12_Witness ==
    /\ last.op = "unregister_mem_cube" /\ last.eres.called /\ last.req.user_id = None
    /\ prev.op = "set_config" /\ prev.code = 200 /\ prev.req.user_id = Some("u1")
    /\ heap[MOS_INSTANCE].config.user_id # "u1"
    /\ heap[MOS_INSTANCE].user_id = "u1"

\* C15: the configuration get_default_config hands out equals the baseline,
\* and whatever item callers set in a handed-out configuration or in a dict
\* nested in it, DEFAULT_CONFIG, as later get_default_config and
\* get_mos_instance calls read it, stays what it was at import.
C15_BaselineUnchanged ==
    /\ last.op = "get_default_config" => Val(last.data) = Deep(dicts, BASELINE)
    /\ Deep(dicts, BASELINE) = Deep(ImportedDicts, BASELINE)
    /\ last.op = "MOSConfig" => Val(last.data) = Deep(ImportedDicts, BASELINE)

(***************************************************************************)
(* Properties of failed replacement, of the instance's user, and of the    *)
(* baseline after configure requests                                       *)
(***************************************************************************)
\* C21: a set_mos_instance call that raises, in the user bootstrap or in
\* the MOS constructor, leaves _MOS_INSTANCE as it was before the call (an
\* object or None), and a get_mos_instance call that follows returns that
\* object without constructing.
C21_FailedSetKeepsCache ==
    /\ (last.op = "set" /\ last.status = "raised") =>
          /\ MOS_INSTANCE = last.before
          /\ MOS_INSTANCE # NoInst => MOS_INSTANCE \in DOMAIN heap
    /\ (prev.op = "set" /\ prev.status = "raised" /\ prev.before # NoInst
          /\ last.op = "get") =>
          /\ last.status = "ok"
          /\ last.ret = prev.before
          /\ last.ctor = 0

C21_Witness ==
    /\ prev.op = "set" /\ prev.status = "raised" /\ prev.ctor = 1 /\ prev.before # NoInst
    /\ last.op = "get" /\ last.ret = prev.before /\ MOS_INSTANCE = prev.before

\* C22: whenever an instance is cached, after any sequence of
\* get_mos_instance, set_mos_instance, reset_mos_instance and configure
\* requests, the instance's current user_id is the id of a user in the
\* registry.
C22_UserExists ==
    MOS_INSTANCE # NoInst => validate_user(users, heap[MOS_INSTANCE].user_id)

\* C23: configure requests leave DEFAULT_CONFIG as it was at import, and
\* the instance get_mos_instance constructs after configure requests and a
\* reset_mos_instance has the baseline user_id, session_id, top_k and
\* toggles, not the configured ones.
C23_BaselineAfterConfigure ==
    /\ MOSConfig(dicts[BASELINE]) = MOSConfig(DEFAULT_CONFIG)
    /\ (last.op = "get" /\ last.status = "ok" /\ last.ctor = 1) =>
          /\ MOS_INSTANCE = last.ret
          /\ View(heap, dicts, MOS_INSTANCE) = MOS(MOSConfig(DEFAULT_CONFIG))

C23_Witness ==
    /\ prev.op = "reset" /\ prev.req # None
    /\ Val(prev.req).user_id = "u1" /\ Val(prev.req).session_id = "s1"
    /\ Val(prev.req).config.top_k = 3 /\ ~Val(prev.req).config.enable_textual_memory
    /\ last.op = "get" /\ last.status = "ok" /\ last.ctor = 1
    /\ View(heap, dicts, MOS_INSTANCE).config.top_k = DEFAULT_TOP_K

====
